---- MODULE Spec2Model ----
(***************************************************************************)
(* A model of manifold-robot: the decision orchestrator (bot.rs run_bot),  *)
(* its evaluation tasks (handle_new_market, handle_bet_triggered), the     *)
(* oracle answer parser (xai.rs parse_prediction) and the streaming client *)
(* (ws.rs run_ws, connect_and_listen, parse_broadcast).                    *)
(*                                                                         *)
(* f64 probabilities and percentages are fixed-point integers scaled by    *)
(* 1000 (0.55 is 550, 65 percent is 65000); liquidity and stakes are whole *)
(* mana.  Option<T> is the empty tuple (None) or a one-element tuple.      *)
(***************************************************************************)
EXTENDS Integers, Sequences, FiniteSets, TLC

VARIABLES
    clock,           \* the wall clock read by now_epoch_secs()
    analyzed_cache,  \* run_bot's analyzed_cache: market id -> epoch secs
    cache_file,      \* the content of analyzed_cache.json
    tasks,           \* the spawned evaluation tasks, in spawn order
    log,             \* what was sent on log_tx, in order
    handled,         \* history: the events run_bot consumed and what each did
    text,            \* parser harness: the oracle response text
    parsed,          \* parser harness: <<>> or <<parse_prediction(text)>>
    ws_pc,           \* streaming client: where run_ws is
    ping_left,       \* seconds until ping_interval's next tick
    stale_left,      \* seconds until the current timeout(stale_timeout, ..) elapses
    sleep_left,      \* seconds of run_ws's 3s sleep that remain
    silence,         \* seconds since the read loop last got a frame (saturating)
    ping_txid,       \* connect_and_listen's ping_txid
    tx,              \* what the streaming client sent on its event channel
    ws_internal_rx,  \* relay: how many events it has received from that channel
    ws_to_bot,       \* relay: what it sent on ws_to_bot_tx, in order
    bot_log_rx       \* relay: how many log entries it has received

vars == <<clock, analyzed_cache, cache_file, tasks, log, handled,
          text, parsed, ws_pc, ping_left, stale_left, sleep_left, silence,
          ping_txid, tx, ws_internal_rx, ws_to_bot, bot_log_rx>>

botVars == <<clock, analyzed_cache, cache_file, tasks, log, handled>>
parseVars == <<text, parsed>>
wsVars == <<ws_pc, ping_left, stale_left, sleep_left, silence, ping_txid, tx>>
relayVars == <<ws_internal_rx, ws_to_bot, bot_log_rx>>

(***************************************************************************)
(* Bounds of the model.                                                    *)
(***************************************************************************)
MaxEvents == 2
MaxEvalEvents == 1
\* Turns of run_bot, restarts included, in SpecRestart.
MaxRestartEvents == 3
MaxConcEvents == 2

(***************************************************************************)
(* Option<T>.                                                              *)
(***************************************************************************)
None == <<>>
Some(x) == <<x>>
unwrap_or(o, d) == IF o = None THEN d ELSE o[1]

(***************************************************************************)
(* BotConfig::default().                                                   *)
(***************************************************************************)
bet_amount == 10
reversion_amount == 25
min_edge == 100
min_liquidity == 100

CACHE_TTL_SECS == 24 * 60 * 60

MarketIds == {"m1", "m2"}

saturating_sub(a, b) == IF a >= b THEN a - b ELSE 0

(***************************************************************************)
(* The dedup cache: a function from the cached ids to their timestamps.    *)
(***************************************************************************)
EmptyCache == [k \in {} |-> 0]

\* Mutant: the lookup never finds the entry.
contains_key_Never(cache, id) == FALSE

contains_key(cache, id) == id \in DOMAIN cache

insert(cache, id, ts) ==
    [k \in DOMAIN cache \cup {id} |-> IF k = id THEN ts ELSE cache[k]]

\* Mutant: an entry exactly 24 hours old still counts as fresh.
Fresh_Inclusive(now, ts) == saturating_sub(now, ts) <= CACHE_TTL_SECS

\* Mutant: the operands of the age are swapped.
Fresh_Swapped(now, ts) == saturating_sub(ts, now) < CACHE_TTL_SECS

\* now.saturating_sub(*ts) < CACHE_TTL_SECS
Fresh(now, ts) == saturating_sub(now, ts) < CACHE_TTL_SECS

retain(cache, now) ==
    [k \in {j \in DOMAIN cache : Fresh(now, cache[j])} |-> cache[k]]

\* What load_cache gets from the file: read_to_string fails (None, the file is
\* missing) or returns data that either decodes to the saved map or does not
\* decode to a map at all.
Data(json, map) == [json |-> json, map |-> map]

FileReads(file) == {None, Some(Data(FALSE, EmptyCache)), Some(Data(TRUE, file))}

Decodable(read) == read # None /\ read[1].json

\* A load that keeps every decoded entry, whatever its age.
load_cache_All(read, now) ==
    IF Decodable(read) THEN read[1].map ELSE EmptyCache

\* load_cache: an empty map when the file cannot be read or decoded, else the
\* decoded entries that pass now.saturating_sub(*ts) < CACHE_TTL_SECS.
load_cache(read, now) ==
    IF read = None
    THEN EmptyCache
    ELSE IF ~read[1].json
         THEN EmptyCache
         ELSE LET cache == read[1].map
              IN [k \in {j \in DOMAIN cache : Fresh(now, cache[j])} |-> cache[k]]

\* A save that leaves an empty map in the file.
save_cache_Empty(cache) == EmptyCache

\* save_cache: the file is rewritten with the whole map.
save_cache(cache) == cache

(***************************************************************************)
(* Oracle answer parsing (xai.rs).                                         *)
(*                                                                         *)
(* A response text is either not JSON at all ("garbage"), free text with   *)
(* sentinel lines ("lines", not JSON either) or a JSON object; of an       *)
(* object only the three members JsonPrediction reads matter (serde        *)
(* ignores the others).  A member is absent, null, a string or a number.   *)
(* Percentages are scaled by 1000: 65 is 65000, 99.5 is 99500.             *)
(***************************************************************************)
JAbsent == [t |-> "absent", s |-> "", n |-> 0]
JNull == [t |-> "null", s |-> "", n |-> 0]
JStr(str) == [t |-> "string", s |-> str, n |-> 0]
JNum(num) == [t |-> "number", s |-> "", n |-> num]

Garbage == [kind |-> "garbage", action |-> JAbsent, probability |-> JAbsent,
            reasoning |-> JAbsent]
JObject(a, p, r) == [kind |-> "object", action |-> a, probability |-> p,
                     reasoning |-> r]

\* Free text: what its last SKIP, `PROBABILITY: NN%` and `REASONING: ...`
\* lines say (JAbsent where it has no such line).
FreeText(skip, p, r) == [kind |-> "lines", action |-> skip, probability |-> p,
                         reasoning |-> r]

\* A parser that reads the sentinel lines of free text as if they were the
\* members of an object.
from_str_Lines(txt) ==
    IF txt.kind = "garbage" THEN None
    ELSE IF txt.kind = "lines"
    THEN IF txt.action = JStr("SKIP")
         THEN Some([action |-> "skip", probability |-> None, reasoning |-> txt.reasoning.s])
         ELSE IF txt.probability.t = "number"
         THEN Some([action |-> "predict", probability |-> Some(txt.probability.n),
                    reasoning |-> txt.reasoning.s])
         ELSE None
    ELSE IF txt.action.t # "string" \/ txt.reasoning.t # "string" THEN None
    ELSE IF txt.probability.t \notin {"absent", "null", "number"} THEN None
    ELSE Some([action |-> txt.action.s,
               probability |-> IF txt.probability.t = "number"
                               THEN Some(txt.probability.n) ELSE None,
               reasoning |-> txt.reasoning.s])

\* serde_json::from_str::<JsonPrediction>: action and reasoning are String
\* (required, must be strings), probability is Option<f64> (absent or null is
\* None, a number is Some, anything else is an error).
from_str(txt) ==
    IF txt.kind # "object" THEN None
    ELSE IF txt.action.t # "string" \/ txt.reasoning.t # "string" THEN None
    ELSE IF txt.probability.t \notin {"absent", "null", "number"} THEN None
    ELSE Some([action |-> txt.action.s,
               probability |-> IF txt.probability.t = "number"
                               THEN Some(txt.probability.n) ELSE None,
               reasoning |-> txt.reasoning.s])

Predict(p, r) == [tag |-> "Predict", probability |-> p, reasoning |-> r]
Skip(r) == [tag |-> "Skip", probability |-> 0, reasoning |-> r]

\* Mutant: only the upper end of the range is checked.
InPctRange_NoLower(pct) == pct <= 100 * 1000

\* (0.0..=100.0).contains(&pct)
InPctRange(pct) == 0 <= pct /\ pct <= 100 * 1000

\* Mutant: the percentage is not divided by 100.
PctToProb_Identity(pct) == pct

\* pct / 100.0
PctToProb(pct) == pct \div 100

\* A match on parsed.action where "skip" falls into the predict arm, a
\* missing probability read as 100.
parse_action_SkipPredicts(j) ==
    IF j.action \in {"skip", "predict"}
    THEN IF ~InPctRange(unwrap_or(j.probability, 100000)) THEN None
         ELSE Some(Predict(PctToProb(unwrap_or(j.probability, 100000)), j.reasoning))
    ELSE None

\* The match on parsed.action.
parse_action(j) ==
    IF j.action = "skip" THEN Some(Skip(j.reasoning))
    ELSE IF j.action = "predict"
    THEN IF j.probability = None THEN None
         ELSE IF ~InPctRange(j.probability[1]) THEN None
         ELSE Some(Predict(PctToProb(j.probability[1]), j.reasoning))
    ELSE None

parse_prediction(txt) ==
    IF from_str(txt) = None THEN None ELSE parse_action(from_str(txt)[1])

\* The texts the parser is tried on.
Actions == {JAbsent, JNull, JNum(1), JStr("predict"), JStr("skip"), JStr("hold")}
Pcts == {-1, 0, 200, 47000, 55000, 65000, 99500, 100000, 100001, 150000}
Probabilities == {JAbsent, JNull, JStr("65")} \cup {JNum(n) : n \in Pcts}
Reasonings == {JAbsent, JNull, JNum(7), JStr(""), JStr("x")}
FreeTexts ==
    {FreeText(k, p, r) : k \in {JAbsent, JStr("SKIP")},
                         p \in {JAbsent, JNum(65000), JNum(150000)},
                         r \in {JAbsent, JStr("x")}}
Texts == {Garbage} \cup FreeTexts \cup
         {JObject(a, p, r) : a \in Actions, p \in Probabilities, r \in Reasonings}

\* The parser harness: a response text arrives, parse_prediction is applied.
ParseInit == text \in Texts /\ parsed = None

Parse ==
    /\ parsed = None
    /\ parsed' = Some(parse_prediction(text))
    /\ UNCHANGED <<text, botVars, wsVars, relayVars>>

NextText ==
    /\ parsed # None
    /\ text' \in Texts
    /\ parsed' = None
    /\ UNCHANGED <<botVars, wsVars, relayVars>>


(***************************************************************************)
(* Events on the channel from the streaming client (ws.rs WsEvent).        *)
(***************************************************************************)
Contract(id, ot, liq, prob, res) ==
    [id |-> id, outcome_type |-> ot, total_liquidity |-> liq, probability |-> prob,
     is_resolved |-> res]

NoContract == Contract("", "", None, None, FALSE)

Connected == [type |-> "Connected", contract |-> NoContract, msg |-> ""]
Disconnected == [type |-> "Disconnected", contract |-> NoContract, msg |-> ""]
Error(msg) == [type |-> "Error", contract |-> NoContract, msg |-> msg]
NewContract(c) == [type |-> "NewContract", contract |-> c, msg |-> ""]
\* BetData: of the trade only contract_id is read by the bot.
NewBet(id) ==
    [type |-> "NewBet", contract |-> Contract(id, "", None, None, FALSE), msg |-> ""]

\* ContractData / api Market values the platform is taken to send.
Snapshots(id) ==
    {Contract(id, "BINARY", Some(150), Some(400), FALSE),
     Contract(id, "BINARY", Some(150), None, FALSE),
     Contract(id, "BINARY", Some(100), Some(400), FALSE),
     Contract(id, "BINARY", Some(50), Some(400), FALSE),
     Contract(id, "BINARY", None, Some(400), FALSE),
     Contract(id, "MULTIPLE_CHOICE", Some(150), None, FALSE)}

\* What get_market may return for a market that traded: it may have resolved.
Markets(id) == Snapshots(id) \cup {Contract(id, "BINARY", Some(150), Some(400), TRUE)}

(***************************************************************************)
(* The log channel: BotLogEntry kind, the sender (0 is run_bot, i is the   *)
(* i-th spawned task) and a tag naming the message.                        *)
(***************************************************************************)
Entry(kind, who, msg) == [kind |-> kind, who |-> who, msg |-> msg]
Info(who, msg) == Entry("Info", who, msg)
Trade(who, msg) == Entry("Trade", who, msg)
ErrorEntry(who, msg) == Entry("Error", who, msg)

(***************************************************************************)
(* Evaluation tasks.  mode "new" runs handle_new_market, mode "bet" runs   *)
(* handle_bet_triggered; pc is the await the task is suspended at, answer  *)
(* what research_market returned to it (None before that, Some(None) for   *)
(* Err, Some(Some(text)) for Ok).                                          *)
(***************************************************************************)
NewTask(mode, c) ==
    [mode |-> mode, id |-> c.id,
     pc |-> IF mode = "new" THEN "start" ELSE "get_market",
     exit |-> "",
     market |-> IF mode = "new" THEN Some(c) ELSE None,
     answer |-> None,
     prediction |-> None, bet |-> None, calls |-> 0]

\* now_epoch_secs(): the wall clock when the handler runs.
now_epoch_secs == clock'

\* History: what run_bot's turn on event ev did, read off the state before and
\* after it: the entry of ev's market before and after, the mode of the task
\* it spawned ("none" when it spawned none) and the log entries it sent.
Lookup(cache, id) == IF id \in DOMAIN cache THEN Some(cache[id]) ELSE None

Handled(ev) ==
    [ev |-> ev, now |-> clock',
     prev |-> Lookup(analyzed_cache, ev.contract.id),
     after |-> Lookup(analyzed_cache', ev.contract.id),
     spawn |-> IF Len(tasks') > Len(tasks) THEN tasks'[Len(tasks')].mode ELSE "none",
     logged |-> SubSeq(log', Len(log) + 1, Len(log'))]

Record(ev) == handled' = Append(handled, Handled(ev))

BotInit ==
    /\ clock = 0
    /\ analyzed_cache = EmptyCache
    /\ cache_file = EmptyCache
    /\ tasks = <<>>
    /\ log = <<>>
    /\ handled = <<>>

\* Seconds that may pass while run_bot awaits ws_rx.recv().
Delays == {0, 1, CACHE_TTL_SECS - 1, CACHE_TTL_SECS, CACHE_TTL_SECS + 1}

\* Status arms where a disconnect also drops the cache.
RunBotStatus_Clears(ev) ==
    /\ ev.type \in {"Connected", "Disconnected", "Error"}
    /\ log' = Append(log, IF ev.type = "Error" THEN ErrorEntry(0, ev.msg)
                          ELSE Info(0, ev.type))
    /\ analyzed_cache' = IF ev.type = "Disconnected" THEN EmptyCache ELSE analyzed_cache
    /\ UNCHANGED <<cache_file, tasks>>
    /\ UNCHANGED <<parseVars, wsVars, relayVars>>

\* run_bot, WsEvent::Connected | Disconnected | Error
RunBotStatus(ev) ==
    /\ ev.type \in {"Connected", "Disconnected", "Error"}
    /\ log' = Append(log, IF ev.type = "Error" THEN ErrorEntry(0, ev.msg)
                          ELSE Info(0, ev.type))
    /\ UNCHANGED <<analyzed_cache, cache_file, tasks>>
    /\ UNCHANGED <<parseVars, wsVars, relayVars>>

\* Mutant: a market exactly at the minimum is skipped as well.
LowLiquidity_Le(c) == unwrap_or(c.total_liquidity, 0) <= min_liquidity

\* if liquidity < config.min_liquidity, liquidity being
\* total_liquidity.unwrap_or(0.0)
LowLiquidity(c) == unwrap_or(c.total_liquidity, 0) < min_liquidity

\* A NewContract arm that evicts expired entries first, as the NewBet arm does.
RunBotNewContract_Sweeps(ev) ==
    /\ ev.type = "NewContract"
    /\ LET c == ev.contract
           now == now_epoch_secs
           swept == retain(analyzed_cache, now)
       IN IF c.outcome_type = "BINARY"
          THEN IF LowLiquidity(c)
               THEN /\ log' = Append(log, Info(0, "Skipping low-liquidity market"))
                    /\ analyzed_cache' = swept
                    /\ UNCHANGED <<cache_file, tasks>>
               ELSE /\ log' = Append(log, Info(0, "New binary market"))
                    /\ analyzed_cache' = insert(swept, c.id, now)
                    /\ cache_file' = save_cache(analyzed_cache')
                    /\ tasks' = Append(tasks, NewTask("new", c))
          ELSE /\ log' = Append(log, Info(0, "Skipping non-binary market"))
               /\ analyzed_cache' = swept
               /\ UNCHANGED <<cache_file, tasks>>
    /\ UNCHANGED <<parseVars, wsVars, relayVars>>

\* A NewContract arm that spawns without marking the market as analyzed.
RunBotNewContract_NoMark(ev) ==
    /\ ev.type = "NewContract"
    /\ LET c == ev.contract
       IN IF c.outcome_type = "BINARY"
          THEN IF LowLiquidity(c)
               THEN /\ log' = Append(log, Info(0, "Skipping low-liquidity market"))
                    /\ UNCHANGED <<analyzed_cache, cache_file, tasks>>
               ELSE /\ log' = Append(log, Info(0, "New binary market"))
                    /\ tasks' = Append(tasks, NewTask("new", c))
                    /\ UNCHANGED <<analyzed_cache, cache_file>>
          ELSE /\ log' = Append(log, Info(0, "Skipping non-binary market"))
               /\ UNCHANGED <<analyzed_cache, cache_file, tasks>>
    /\ UNCHANGED <<parseVars, wsVars, relayVars>>

\* run_bot, WsEvent::NewContract
RunBotNewContract(ev) ==
    /\ ev.type = "NewContract"
    /\ LET c == ev.contract
           now == now_epoch_secs
       IN IF c.outcome_type = "BINARY"
          THEN IF LowLiquidity(c)
               THEN /\ log' = Append(log, Info(0, "Skipping low-liquidity market"))
                    /\ UNCHANGED <<analyzed_cache, cache_file, tasks>>
               ELSE /\ log' = Append(log, Info(0, "New binary market"))
                    /\ analyzed_cache' = insert(analyzed_cache, c.id, now)
                    /\ cache_file' = save_cache(analyzed_cache')
                    /\ tasks' = Append(tasks, NewTask("new", c))
          ELSE /\ log' = Append(log, Info(0, "Skipping non-binary market"))
               /\ UNCHANGED <<analyzed_cache, cache_file, tasks>>
    /\ UNCHANGED <<parseVars, wsVars, relayVars>>

\* A NewBet arm that writes the file before it inserts the new entry.
RunBotNewBet_SavesFirst(ev) ==
    /\ ev.type = "NewBet"
    /\ LET id == ev.contract.id
           now == now_epoch_secs
           swept == retain(analyzed_cache, now)
       IN IF contains_key(swept, id)
          THEN /\ analyzed_cache' = swept
               /\ UNCHANGED <<cache_file, tasks>>
          ELSE /\ cache_file' = save_cache(swept)
               /\ analyzed_cache' = insert(swept, id, now)
               /\ tasks' = Append(tasks, NewTask("bet", ev.contract))
    /\ UNCHANGED log
    /\ UNCHANGED <<parseVars, wsVars, relayVars>>

\* run_bot, WsEvent::NewBet
RunBotNewBet(ev) ==
    /\ ev.type = "NewBet"
    /\ LET id == ev.contract.id
           now == now_epoch_secs
           swept == retain(analyzed_cache, now)
       IN IF contains_key(swept, id)
          THEN /\ analyzed_cache' = swept
               /\ UNCHANGED <<cache_file, tasks>>
          ELSE /\ analyzed_cache' = insert(swept, id, now)
               /\ cache_file' = save_cache(analyzed_cache')
               /\ tasks' = Append(tasks, NewTask("bet", ev.contract))
    /\ UNCHANGED log
    /\ UNCHANGED <<parseVars, wsVars, relayVars>>

\* The process starting again: run_bot's prologue.  The tasks of the previous
\* process are gone with it; the file is what survives.  A file found missing
\* or undecodable holds no entry from then on.  The turn is recorded in the
\* history as a "Started" pseudo-event carrying what the read returned.
Started(read) ==
    [type |-> "Started", contract |-> NoContract, msg |-> "", read |-> read]

RunBotStart(read) ==
    /\ log' = Append(log, Info(0, "Bot started"))
    /\ analyzed_cache' = load_cache(read, now_epoch_secs)
    /\ cache_file' = IF Decodable(read) THEN cache_file ELSE EmptyCache
    /\ tasks' = <<>>
    /\ handled' = Append(handled,
            [ev |-> Started(read), now |-> clock', prev |-> None, after |-> None,
             spawn |-> "none", logged |-> <<Info(0, "Bot started")>>])
    /\ UNCHANGED <<parseVars, wsVars, relayVars>>

\* The events the channel may deliver.
Events ==
    {Connected, Disconnected, Error("WS error")}
    \cup {NewContract(c) : c \in UNION {Snapshots(id) : id \in MarketIds}}
    \cup {NewBet(id) : id \in MarketIds}

\* ws_rx.recv().await: the next event arrives d seconds after the last one;
\* `limit` bounds the events consumed.
Recv(limit, d) ==
    /\ Len(handled) < limit
    /\ clock' = clock + d

(***************************************************************************)
(* The evaluation pipeline.                                                *)
(***************************************************************************)
abs(x) == IF x < 0 THEN -x ELSE x

\* f64::clamp
clamp(x, lo, hi) == IF x < lo THEN lo ELSE IF x > hi THEN hi ELSE x

BetRequest(id, amount, outcome, limit_prob) ==
    [contract_id |-> id, amount |-> amount, outcome |-> outcome,
     limit_prob |-> limit_prob]

\* market.probability.unwrap_or(0.5)
market_prob(m) == unwrap_or(m.probability, 500)

\* edge = prediction.probability - market_prob
edge(p, m) == p - market_prob(m)

\* Mutant: the edge is compared without taking its absolute value.
BelowMinEdge_NoAbs(p, m) == edge(p, m) < min_edge

\* if abs_edge < config.min_edge { ... return }
BelowMinEdge(p, m) == abs(edge(p, m)) < min_edge

\* let (outcome, limit_prob) = if edge > 0.0 { ("YES", p) } else { ("NO", p) }
outcome(p, m) == IF edge(p, m) > 0 THEN "YES" ELSE "NO"

\* Mutant: the limit is not clamped.
limit_prob_Unclamped(p) == p

\* let limit_prob = limit_prob.clamp(0.01, 0.99)
limit_prob(p) == clamp(p, 10, 990)

\* One stake for both handlers.
amount_Same(mode) == bet_amount

\* config.bet_amount for a new market, config.reversion_amount for a traded one
amount(mode) == IF mode = "new" THEN bet_amount ELSE reversion_amount

Tag(mode, msg) == IF mode = "new" THEN msg ELSE "[bet-triggered] " \o msg

\* A failing task that takes the other running tasks down with it.
SetTask_Poison(i, t) ==
    tasks' = [j \in 1..Len(tasks) |->
                 IF j = i THEN t
                 ELSE IF t.exit \in {"fetch failed", "research failed", "unparseable",
                                     "bet failed"}
                         /\ tasks[j].pc # "done"
                 THEN [tasks[j] EXCEPT !.pc = "done", !.exit = "aborted"]
                 ELSE tasks[j]]

SetTask(i, t) == tasks' = [tasks EXCEPT ![i] = t]

Return(t, why) == [t EXCEPT !.pc = "done", !.exit = why]

\* handle_new_market up to the await of research_market
TaskStart(i) ==
    /\ tasks[i].pc = "start"
    /\ log' = Append(log, Info(i, "Researching"))
    /\ SetTask(i, [tasks[i] EXCEPT !.pc = "research"])
    /\ UNCHANGED <<clock, analyzed_cache, cache_file, handled>>
    /\ UNCHANGED <<parseVars, wsVars, relayVars>>

\* A reversion task that goes on to the oracle whatever the fetched market's
\* resolved flag says.
Aborts_IgnoresResolved(market) == market.outcome_type # "BINARY"

\* if market.is_resolved || market.outcome_type != "BINARY" { return; }
Aborts(market) == market.is_resolved \/ market.outcome_type # "BINARY"

\* let market = ... Ok(m) => m: the task holds the fetched snapshot.
Fetched(t, market) == [t EXCEPT !.market = Some(market)]

\* handle_bet_triggered from the answer of get_market to the await of
\* research_market; res is None for Err.
TaskMarket(i, res) ==
    /\ tasks[i].pc = "get_market"
    /\ IF res = None
       THEN /\ log' = Append(log, ErrorEntry(i, "Failed to fetch market"))
            /\ SetTask(i, Return(tasks[i], "fetch failed"))
       ELSE LET market == res[1]
            IN IF Aborts(market)
               THEN /\ SetTask(i, Return(Fetched(tasks[i], market), "not tradable"))
                    /\ UNCHANGED log
               ELSE IF LowLiquidity(market)
               THEN /\ SetTask(i, Return(Fetched(tasks[i], market), "low liquidity"))
                    /\ UNCHANGED log
               ELSE /\ log' = Append(log, Info(i, "Analyzing market"))
                    /\ SetTask(i, [Fetched(tasks[i], market) EXCEPT !.pc = "research"])
    /\ UNCHANGED <<clock, analyzed_cache, cache_file, handled>>
    /\ UNCHANGED <<parseVars, wsVars, relayVars>>

\* Both handlers from the answer of research_market to the await of place_bet;
\* res is None for Err, else the response text.
TaskResearch(i, res) ==
    /\ tasks[i].pc = "research"
    /\ LET t == [tasks[i] EXCEPT !.answer = Some(res)]
           m == t.market[1]
           result == IF res = None THEN None ELSE parse_prediction(res[1])
       IN IF res = None
          THEN /\ log' = Append(log, ErrorEntry(i, "xAI research failed"))
               /\ SetTask(i, Return(t, "research failed"))
          ELSE IF result = None
          THEN /\ log' = IF t.mode = "new"
                         THEN log \o <<ErrorEntry(i, "Could not parse prediction"),
                                       Info(i, "xAI response")>>
                         ELSE Append(log, ErrorEntry(i, "Could not parse prediction"))
               /\ SetTask(i, Return(t, "unparseable"))
          ELSE IF result[1].tag = "Skip"
          THEN /\ log' = Append(log, Info(i, "Skipping unevaluable market"))
               /\ SetTask(i, Return(t, "skip"))
          ELSE LET p == result[1].probability
               IN IF BelowMinEdge(p, m)
                  THEN /\ log' = Append(log, Info(i, Tag(t.mode, "edge < min, skipping")))
                       /\ SetTask(i, [Return(t, "low edge") EXCEPT
                                         !.prediction = Some(result[1])])
                  ELSE /\ log' = Append(log, Info(i, Tag(t.mode, "limit order")))
                       /\ SetTask(i, [t EXCEPT
                            !.pc = "place_bet",
                            !.prediction = Some(result[1]),
                            !.bet = Some(BetRequest(t.id, amount(t.mode),
                                                    outcome(p, m), limit_prob(p))),
                            !.calls = t.calls + 1])
    /\ UNCHANGED <<clock, analyzed_cache, cache_file, handled>>
    /\ UNCHANGED <<parseVars, wsVars, relayVars>>

\* A handler that forgets the market when its submission failed, so that a
\* later trade evaluates it again.
TaskPlaceBet_Unmark(i, ok) ==
    /\ tasks[i].pc = "place_bet"
    /\ IF ok
       THEN /\ log' = Append(log, Trade(i, IF tasks[i].mode = "new" THEN "BET PLACED"
                                          ELSE "BET PLACED (reversion)"))
            /\ SetTask(i, Return(tasks[i], "placed"))
            /\ UNCHANGED <<analyzed_cache, cache_file>>
       ELSE /\ log' = Append(log, ErrorEntry(i, "Failed to place bet"))
            /\ SetTask(i, Return(tasks[i], "bet failed"))
            /\ analyzed_cache' = [k \in DOMAIN analyzed_cache \ {tasks[i].id} |->
                                      analyzed_cache[k]]
            /\ cache_file' = save_cache(analyzed_cache')
    /\ UNCHANGED <<clock, handled>>
    /\ UNCHANGED <<parseVars, wsVars, relayVars>>

\* A handler that submits the order again when the submission failed.
TaskPlaceBet_Retry(i, ok) ==
    /\ tasks[i].pc = "place_bet"
    /\ tasks[i].calls < 3
    /\ IF ok
       THEN /\ log' = Append(log, Trade(i, IF tasks[i].mode = "new" THEN "BET PLACED"
                                          ELSE "BET PLACED (reversion)"))
            /\ SetTask(i, Return(tasks[i], "placed"))
       ELSE /\ log' = Append(log, ErrorEntry(i, "Failed to place bet"))
            /\ SetTask(i, [tasks[i] EXCEPT !.calls = tasks[i].calls + 1])
    /\ UNCHANGED <<clock, analyzed_cache, cache_file, handled>>
    /\ UNCHANGED <<parseVars, wsVars, relayVars>>

\* Both handlers from the answer of place_bet to the end; ok is FALSE for Err.
TaskPlaceBet(i, ok) ==
    /\ tasks[i].pc = "place_bet"
    /\ IF ok
       THEN /\ log' = Append(log, Trade(i, IF tasks[i].mode = "new" THEN "BET PLACED"
                                          ELSE "BET PLACED (reversion)"))
            /\ SetTask(i, Return(tasks[i], "placed"))
       ELSE /\ log' = Append(log, ErrorEntry(i, "Failed to place bet"))
            /\ SetTask(i, Return(tasks[i], "bet failed"))
    /\ UNCHANGED <<clock, analyzed_cache, cache_file, handled>>
    /\ UNCHANGED <<parseVars, wsVars, relayVars>>

\* The oracle's responses.
PredictText(pct, r) == JObject(JStr("predict"), JNum(pct), JStr(r))
SkipText(r) == JObject(JStr("skip"), JAbsent, JStr(r))

OracleTexts ==
    {Garbage, SkipText("y"), PredictText(150000, "x"),
     PredictText(55000, "x"), PredictText(47000, ""), PredictText(99500, "x"),
     PredictText(200, "x"), PredictText(60000, "x"), PredictText(30000, "x")}

AllMarkets == [id \in MarketIds |-> Markets(id)]

\* get_market's answers, None for Err.
MarketResults(i) == {None} \cup {Some(m) : m \in AllMarkets[tasks[i].id]}

\* research_market's answers, None for Err.
ResearchResults == {None} \cup {Some(txt) : txt \in OracleTexts}

\* The orchestrator alone: run_bot consuming events as time passes.  The
\* spawned tasks share no variable with run_bot but the log; they run in
\* SpecEval.
BotNext ==
    \/ \E ev \in Events, d \in Delays : Recv(MaxEvents, d) /\ RunBotStatus(ev) /\ Record(ev)
    \/ \E ev \in Events, d \in Delays : Recv(MaxEvents, d) /\ RunBotNewContract(ev) /\ Record(ev)
    \/ \E ev \in Events, d \in Delays : Recv(MaxEvents, d) /\ RunBotNewBet(ev) /\ Record(ev)

\* The orchestrator across restarts of the process.
RestartEvents ==
    {NewBet("m1"), NewBet("m2"),
     NewContract(Contract("m1", "BINARY", Some(150), Some(400), FALSE))}

RestartDelays == {0, CACHE_TTL_SECS - 1, CACHE_TTL_SECS, CACHE_TTL_SECS + 1}

RestartNext ==
    \/ \E ev \in RestartEvents, d \in RestartDelays :
            Recv(MaxRestartEvents, d) /\ RunBotNewContract(ev) /\ Record(ev)
    \/ \E ev \in RestartEvents, d \in RestartDelays :
            Recv(MaxRestartEvents, d) /\ RunBotNewBet(ev) /\ Record(ev)
    \/ \E read \in FileReads(cache_file), d \in RestartDelays :
            Recv(MaxRestartEvents, d) /\ RunBotStart(read)

\* The orchestrator with its evaluation tasks, each step of a task interleaved
\* with run_bot and with the other tasks.
EvalNext ==
    \/ \E ev \in Events : Recv(MaxEvalEvents, 0) /\ RunBotStatus(ev) /\ Record(ev)
    \/ \E ev \in Events : Recv(MaxEvalEvents, 0) /\ RunBotNewContract(ev) /\ Record(ev)
    \/ \E ev \in Events : Recv(MaxEvalEvents, 0) /\ RunBotNewBet(ev) /\ Record(ev)
    \/ \E i \in 1..Len(tasks) : TaskStart(i)
    \/ \E i \in 1..Len(tasks) : \E res \in MarketResults(i) : TaskMarket(i, res)
    \/ \E i \in 1..Len(tasks) : \E res \in ResearchResults : TaskResearch(i, res)
    \/ \E i \in 1..Len(tasks) : \E ok \in BOOLEAN : TaskPlaceBet(i, ok)

\* The orchestrator and its tasks over time: fewer kinds of event and of
\* answer than in EvalNext, but time passes between the events, so that entries
\* age while evaluations are in flight.
ConcEvents ==
    {Error("WS error"), NewBet("m1"),
     NewContract(Contract("m1", "BINARY", Some(150), Some(400), FALSE)),
     NewContract(Contract("m1", "BINARY", Some(50), Some(400), FALSE))}

ConcDelays == {CACHE_TTL_SECS - 1, CACHE_TTL_SECS + 1}

ConcMarketResults(i) ==
    {None, Some(Contract(tasks[i].id, "BINARY", Some(150), Some(400), FALSE))}

ConcResearchResults == {None, Some(Garbage), Some(PredictText(55000, "x"))}

ConcNext ==
    \/ \E ev \in ConcEvents, d \in ConcDelays :
           Recv(MaxConcEvents, d) /\ RunBotStatus(ev) /\ Record(ev)
    \/ \E ev \in ConcEvents, d \in ConcDelays :
           Recv(MaxConcEvents, d) /\ RunBotNewContract(ev) /\ Record(ev)
    \/ \E ev \in ConcEvents, d \in ConcDelays :
           Recv(MaxConcEvents, d) /\ RunBotNewBet(ev) /\ Record(ev)
    \/ \E i \in 1..Len(tasks) : TaskStart(i)
    \/ \E i \in 1..Len(tasks) : \E res \in ConcMarketResults(i) : TaskMarket(i, res)
    \/ \E i \in 1..Len(tasks) : \E res \in ConcResearchResults : TaskResearch(i, res)
    \/ \E i \in 1..Len(tasks) : \E ok \in BOOLEAN : TaskPlaceBet(i, ok)

\* The parts of the program a specification leaves out stay as they start.
ParseIdle == text = Garbage /\ parsed = None

\* The relay before it has received anything.
RelayInit ==
    /\ ws_internal_rx = 0
    /\ ws_to_bot = <<>>
    /\ bot_log_rx = 0

RelayIdle == RelayInit

(***************************************************************************)
(* The streaming client (ws.rs).                                           *)
(*                                                                         *)
(* Time is counted in seconds by the timers themselves: ping_left is what  *)
(* remains until ping_interval ticks, stale_left what remains of the       *)
(* timeout(stale_timeout, read.next()) future of the current turn of the   *)
(* select loop, sleep_left what remains of run_ws's sleep.  Time passes    *)
(* from one due timer to the next, and a timer that is due fires before    *)
(* more time passes; frames arrive at these instants.                      *)
(***************************************************************************)
PING_SECS == 20
STALE_SECS == 90
RECONNECT_SECS == 3
FIRST_PING_TXID == 100

MaxTx == 4
MaxPings == 5

\* Frames the server may send.  A text frame is an ack, a broadcast or text
\* that is no WsMessage; a broadcast's data either decodes (contract, bets)
\* or does not (None).
Frame(kind, msg, success, topic, contract, bets) ==
    [kind |-> kind, msg |-> msg, success |-> success, topic |-> topic,
     contract |-> contract, bets |-> bets]

Ack(success) == Frame("text", "ack", success, "", None, None)
Broadcast(topic, contract, bets) == Frame("text", "broadcast", TRUE, topic, contract, bets)
MalformedText == Frame("text", "malformed", TRUE, "", None, None)
CloseFrame == Frame("close", "", TRUE, "", None, None)
OtherFrame == Frame("other", "", TRUE, "", None, None)

Frames ==
    {Ack(TRUE), Ack(FALSE), MalformedText, CloseFrame, OtherFrame,
     Broadcast("global/new-contract",
               Some(Contract("m1", "BINARY", Some(150), Some(400), FALSE)), None),
     Broadcast("global/new-contract", None, None),
     Broadcast("global/new-bet", None, Some(<<>>)),
     Broadcast("global/new-bet", None, Some(<<"m1">>)),
     Broadcast("global/new-bet", None, Some(<<"m2", "m1">>)),
     Broadcast("global/new-bet", None, None),
     Broadcast("global/unknown", None, None)}

\* A parse_broadcast that converts the last record of the list.
parse_broadcast_Last(f) ==
    IF f.topic = "global/new-contract"
    THEN IF f.contract # None THEN NewContract(f.contract[1])
         ELSE Error("Failed to parse new contract")
    ELSE IF f.topic = "global/new-bet"
    THEN IF f.bets # None
         THEN IF Len(f.bets[1]) > 0 THEN NewBet(f.bets[1][Len(f.bets[1])])
              ELSE Error("Empty bets array in new-bet broadcast")
         ELSE Error("Failed to parse new bet")
    ELSE Error("Unknown topic")

\* parse_broadcast
parse_broadcast(f) ==
    IF f.topic = "global/new-contract"
    THEN IF f.contract # None THEN NewContract(f.contract[1])
         ELSE Error("Failed to parse new contract")
    ELSE IF f.topic = "global/new-bet"
    THEN IF f.bets # None
         THEN IF Len(f.bets[1]) > 0 THEN NewBet(Head(f.bets[1]))
              ELSE Error("Empty bets array in new-bet broadcast")
         ELSE Error("Failed to parse new bet")
    ELSE Error("Unknown topic")

\* A read loop that says nothing about a failed acknowledgment.
Emitted_QuietAck(f) ==
    IF f.kind # "text" \/ f.msg = "malformed" THEN <<>>
    ELSE IF f.msg = "ack" THEN <<>>
    ELSE <<parse_broadcast(f)>>

\* What the read loop sends for a frame it keeps running on.
Emitted(f) ==
    IF f.kind # "text" \/ f.msg = "malformed" THEN <<>>
    ELSE IF f.msg = "ack"
    THEN IF f.success THEN <<>> ELSE <<Error("Subscription failed")>>
    ELSE <<parse_broadcast(f)>>

WsInit ==
    /\ ws_pc = "connecting"
    /\ ping_left = 0
    /\ stale_left = 0
    /\ sleep_left = 0
    /\ silence = 0
    /\ ping_txid = 0
    /\ tx = <<>>

WsIdle == WsInit

\* tx.send: `evs` are sent, if the bound on the channel's history allows.
Send(evs) ==
    /\ Len(tx) + Len(evs) <= MaxTx
    /\ tx' = tx \o evs

\* A run_ws that sends Disconnected only when connect_and_listen returned Ok.
Leave_ErrorOnly(before, err) ==
    /\ Send(before \o (IF err THEN <<Error("WS error")>> ELSE <<Disconnected>>))
    /\ ws_pc' = "sleeping"
    /\ sleep_left' = RECONNECT_SECS
    /\ UNCHANGED <<ping_left, stale_left, silence, ping_txid>>

\* run_ws after connect_and_listen returned: Error if it returned Err, then
\* Disconnected, then the 3s sleep starts.  `before` is what connect_and_listen
\* itself sent in its last step.
Leave(before, err) ==
    /\ Send(before \o (IF err THEN <<Error("WS error")>> ELSE <<>>) \o <<Disconnected>>)
    /\ ws_pc' = "sleeping"
    /\ sleep_left' = RECONNECT_SECS
    /\ UNCHANGED <<ping_left, stale_left, silence, ping_txid>>

\* A client that announces the connection as soon as it is open.
WsConnect_Early(ok) ==
    /\ ws_pc = "connecting"
    /\ IF ok
       THEN /\ Send(<<Connected>>)
            /\ ws_pc' = "subscribing"
            /\ UNCHANGED <<ping_left, stale_left, sleep_left, silence, ping_txid>>
       ELSE Leave(<<>>, TRUE)
    /\ UNCHANGED <<botVars, parseVars, relayVars>>

\* connect_async(WS_URL).await?
WsConnect(ok) ==
    /\ ws_pc = "connecting"
    /\ IF ok
       THEN /\ ws_pc' = "subscribing"
            /\ UNCHANGED <<ping_left, stale_left, sleep_left, silence, ping_txid, tx>>
       ELSE Leave(<<>>, TRUE)
    /\ UNCHANGED <<botVars, parseVars, relayVars>>

\* write.send(subscribe).await?, then Connected is sent, the interval is
\* created (its first tick is due at once) and the loop is entered.
WsSubscribe(ok) ==
    /\ ws_pc = "subscribing"
    /\ IF ok
       THEN /\ Send(<<Connected>>)
            /\ ws_pc' = "active"
            /\ ping_left' = 0
            /\ ping_txid' = FIRST_PING_TXID
            /\ stale_left' = STALE_SECS
            /\ silence' = 0
            /\ UNCHANGED sleep_left
       ELSE Leave(<<>>, TRUE)
    /\ UNCHANGED <<botVars, parseVars, relayVars>>

\* A ping branch that carries on when its send failed.
WsPing_Ignores(ok) ==
    /\ ws_pc = "active"
    /\ ping_left = 0
    /\ ping_txid < FIRST_PING_TXID + MaxPings
    /\ ping_txid' = ping_txid + 1
    /\ ping_left' = PING_SECS
    /\ stale_left' = STALE_SECS
    /\ UNCHANGED <<ws_pc, sleep_left, silence, tx>>
    /\ UNCHANGED <<botVars, parseVars, relayVars>>

\* select!: the ping_interval.tick() branch.  The loop's next turn creates a
\* new timeout(stale_timeout, read.next()).
WsPing(ok) ==
    /\ ws_pc = "active"
    /\ ping_left = 0
    /\ ping_txid < FIRST_PING_TXID + MaxPings
    /\ IF ok
       THEN /\ ping_txid' = ping_txid + 1
            /\ ping_left' = PING_SECS
            /\ stale_left' = STALE_SECS
            /\ UNCHANGED <<ws_pc, sleep_left, silence, tx>>
       ELSE /\ Send(<<Disconnected>>)
            /\ ping_txid' = ping_txid + 1
            /\ ws_pc' = "sleeping"
            /\ sleep_left' = RECONNECT_SECS
            /\ UNCHANGED <<ping_left, stale_left, silence>>
    /\ UNCHANGED <<botVars, parseVars, relayVars>>

\* What timeout(stale_timeout, read.next()) may resolve to: a frame, a read
\* error, the end of the stream, or Elapsed once its 90s are over.
ReadResults ==
    {[res |-> "frame", frame |-> f] : f \in Frames}
    \cup {[res |-> r, frame |-> OtherFrame] : r \in {"error", "end"}}
    \cup (IF stale_left = 0 THEN {[res |-> "elapsed", frame |-> OtherFrame]} ELSE {})

\* select!: the timed read branch.
WsRead(r) ==
    /\ ws_pc = "active"
    /\ IF r.res = "error" THEN Leave(<<Error("WS read error")>>, FALSE)
       ELSE IF r.res = "end" THEN Leave(<<>>, FALSE)
       ELSE IF r.res = "elapsed" THEN Leave(<<Error("WS stale")>>, FALSE)
       ELSE IF r.frame.kind = "close" THEN Leave(<<>>, FALSE)
       ELSE /\ Send(Emitted(r.frame))
            /\ stale_left' = STALE_SECS
            /\ silence' = 0
            /\ UNCHANGED <<ws_pc, ping_left, sleep_left, ping_txid>>
    /\ UNCHANGED <<botVars, parseVars, relayVars>>

Min(a, b) == IF a <= b THEN a ELSE b

\* Time passes until the next timer is due.
WsTick ==
    /\ \/ /\ ws_pc = "active"
          /\ ping_left > 0 /\ stale_left > 0
          /\ LET d == Min(ping_left, stale_left)
             IN /\ ping_left' = ping_left - d
                /\ stale_left' = stale_left - d
                /\ silence' = silence + d
          /\ UNCHANGED sleep_left
       \/ /\ ws_pc = "sleeping"
          /\ sleep_left > 0
          /\ sleep_left' = 0
          /\ UNCHANGED <<ping_left, stale_left, silence>>
    /\ UNCHANGED <<ws_pc, ping_txid, tx>>
    /\ UNCHANGED <<botVars, parseVars, relayVars>>

\* run_ws returning after its sleep instead of looping.
WsWake_Return ==
    /\ ws_pc = "sleeping"
    /\ sleep_left = 0
    /\ ws_pc' = "returned"
    /\ UNCHANGED <<ping_left, stale_left, sleep_left, silence, ping_txid, tx>>
    /\ UNCHANGED <<botVars, parseVars, relayVars>>

\* tokio::time::sleep(3s) is over: run_ws loops and connects again.
WsWake ==
    /\ ws_pc = "sleeping"
    /\ sleep_left = 0
    /\ ws_pc' = "connecting"
    /\ UNCHANGED <<ping_left, stale_left, sleep_left, silence, ping_txid, tx>>
    /\ UNCHANGED <<botVars, parseVars, relayVars>>

WsNext ==
    \/ \E ok \in BOOLEAN : WsConnect(ok)
    \/ \E ok \in BOOLEAN : WsSubscribe(ok)
    \/ \E ok \in BOOLEAN : WsPing(ok)
    \/ \E r \in ReadResults : WsRead(r)
    \/ WsTick
    \/ WsWake

InitWs == WsInit /\ BotInit /\ ParseIdle /\ RelayIdle

SpecWs ==
    /\ InitWs
    /\ [][WsNext]_vars

\* The runtime resumes run_ws when its sleep is over, and time passes.
SpecWsFair == SpecWs /\ WF_vars(WsTick) /\ WF_vars(WsWake)

(***************************************************************************)
(* The relay (main.rs): it receives the client's events on ws_internal_rx  *)
(* and sends each on to run_bot on ws_to_bot_tx, and receives run_bot's    *)
(* log entries on bot_log_rx, one select! turn at a time.                  *)
(***************************************************************************)
\* A relay that loses the event it received when a log entry is waiting too.
RelayEvent_Lossy ==
    /\ ws_internal_rx < Len(tx)
    /\ ws_internal_rx' = ws_internal_rx + 1
    /\ ws_to_bot' = IF bot_log_rx < Len(log) THEN ws_to_bot
                    ELSE Append(ws_to_bot, tx[ws_internal_rx + 1])
    /\ UNCHANGED bot_log_rx
    /\ UNCHANGED <<botVars, parseVars, wsVars>>

\* select!: Some(event) = ws_internal_rx.recv(), then ws_to_bot_tx.send(event)
RelayEvent ==
    /\ ws_internal_rx < Len(tx)
    /\ ws_internal_rx' = ws_internal_rx + 1
    /\ ws_to_bot' = Append(ws_to_bot, tx[ws_internal_rx + 1])
    /\ UNCHANGED bot_log_rx
    /\ UNCHANGED <<botVars, parseVars, wsVars>>

\* select!: Some(entry) = bot_log_rx.recv()
RelayLog ==
    /\ bot_log_rx < Len(log)
    /\ bot_log_rx' = bot_log_rx + 1
    /\ UNCHANGED <<ws_internal_rx, ws_to_bot>>
    /\ UNCHANGED <<botVars, parseVars, wsVars>>

\* The event ws_rx.recv() returns next in run_bot.
NextEvent == ws_to_bot[Len(handled) + 1]

\* One event of each WsEvent variant.
ClientEvents ==
    {Connected, Disconnected, Error("WS error"), NewBet("m1"),
     NewContract(Contract("m1", "BINARY", Some(150), Some(400), FALSE))}

\* tx.send(event) in the client, whatever made it send.
Emit(ev) ==
    /\ Send(<<ev>>)
    /\ UNCHANGED <<ws_pc, ping_left, stale_left, sleep_left, silence, ping_txid>>
    /\ UNCHANGED <<botVars, parseVars, relayVars>>

\* The channel from the client, the relay and run_bot together: the client
\* sends any events in any order; the evaluation tasks run_bot spawns are left
\* where they start.
RelayNext ==
    \/ \E ev \in ClientEvents : Emit(ev)
    \/ RelayEvent
    \/ RelayLog
    \/ Recv(Len(ws_to_bot), 0) /\ RunBotStatus(NextEvent) /\ Record(NextEvent)
    \/ Recv(Len(ws_to_bot), 0) /\ RunBotNewContract(NextEvent) /\ Record(NextEvent)
    \/ Recv(Len(ws_to_bot), 0) /\ RunBotNewBet(NextEvent) /\ Record(NextEvent)

SpecRelay ==
    /\ InitWs
    /\ [][RelayNext]_vars

\* The bot before its first event, with the parser and the client at rest.
Init == BotInit /\ ParseIdle /\ WsIdle /\ RelayIdle

Spec ==
    /\ Init
    /\ [][BotNext]_vars

SpecEval ==
    /\ Init
    /\ [][EvalNext]_vars

SpecRestart ==
    /\ Init
    /\ [][RestartNext]_vars

SpecConc ==
    /\ Init
    /\ [][ConcNext]_vars

\* The parser on every text of Texts.
ParseNext == Parse \/ NextText

InitParse == ParseInit /\ BotInit /\ WsIdle /\ RelayIdle

SpecParse ==
    /\ InitParse
    /\ [][ParseNext]_vars

(***************************************************************************)
(* Properties of the orchestrator (checked under Spec).                    *)
(***************************************************************************)
IsBet(h) == h.ev.type = "NewBet"
IsContract(h) == h.ev.type = "NewContract"
SameMarket(g, h) == g.ev.contract.id = h.ev.contract.id

\* C1: once a market has an entry in the dedup cache, no event of either type
\* spawns an evaluation for it while the entry is younger than the 24 hour
\* cooldown window.
C1_NoSpawnWhileCached ==
    \A k \in 1..Len(handled) :
        LET h == handled[k]
        IN (h.prev # None /\ h.now - h.prev[1] < CACHE_TTL_SECS) => h.spawn = "none"

\* C2: of the Bet-Occurred events for one market consumed within the cooldown
\* window of the first, exactly one spawns an evaluation: the first one spawns
\* a reversion evaluation, each later one spawns nothing and leaves the entry's
\* timestamp as it was.
C2_BetsInWindowSpawnOnce ==
    \A i \in 1..Len(handled) :
        (IsBet(handled[i]) /\ handled[i].spawn = "bet") =>
            /\ handled[i].after = Some(handled[i].now)
            /\ \A j \in (i + 1)..Len(handled) :
                   ( /\ IsBet(handled[j])
                     /\ SameMarket(handled[i], handled[j])
                     /\ handled[j].now - handled[i].now < CACHE_TTL_SECS )
                   => /\ handled[j].spawn = "none"
                      /\ handled[j].after = handled[j].prev
                      /\ handled[j].prev # None

\* C2 witness: a bet spawned a reversion evaluation and a later bet on the same
\* market, one second before the window closed, was discarded.
C2_Witness ==
    \E i, j \in 1..Len(handled) :
        /\ i < j
        /\ IsBet(handled[i]) /\ IsBet(handled[j])
        /\ SameMarket(handled[i], handled[j])
        /\ handled[i].spawn = "bet"
        /\ handled[j].now = handled[i].now + CACHE_TTL_SECS - 1
        /\ handled[j].spawn = "none"

\* C3: a Bet-Occurred event that finds its market's entry inserted at T is
\* discarded (entry kept) at T + 24h - 1s, and spawns a new evaluation (entry
\* replaced) at T + 24h + 1s.
C3_TtlBoundary ==
    \A k \in 1..Len(handled) :
        LET h == handled[k]
        IN (IsBet(h) /\ h.prev # None) =>
             /\ h.now = h.prev[1] + CACHE_TTL_SECS - 1 =>
                    (h.spawn = "none" /\ h.after = h.prev)
             /\ h.now = h.prev[1] + CACHE_TTL_SECS + 1 =>
                    (h.spawn = "bet" /\ h.after = Some(h.now))

\* C3 witness: a bet arrived 24h + 1s after its market's entry was inserted and
\* spawned a new evaluation.
C3_Witness ==
    \E k \in 1..Len(handled) :
        /\ IsBet(handled[k])
        /\ handled[k].prev # None
        /\ handled[k].now = handled[k].prev[1] + CACHE_TTL_SECS + 1
        /\ handled[k].spawn = "bet"

\* C8: a Contract-Created event spawns an evaluation exactly when its outcome
\* kind is binary and its liquidity (0 when absent) is at least the configured
\* minimum; otherwise it spawns nothing, leaves the cache alone and sends one
\* informational log entry.
C8_LiquidityFilter ==
    \A k \in 1..Len(handled) :
        LET h == handled[k]
            c == h.ev.contract
            liquidity == IF c.total_liquidity = None THEN 0 ELSE c.total_liquidity[1]
            eligible == c.outcome_type = "BINARY" /\ liquidity >= 100
        IN IsContract(h) =>
             /\ h.spawn # "none" <=> eligible
             /\ eligible => h.spawn = "new"
             /\ ~eligible => /\ h.after = h.prev
                             /\ Len(h.logged) = 1
                             /\ h.logged[1].kind = "Info"
             /\ (c.outcome_type = "BINARY" /\ c.total_liquidity = Some(150))
                    => h.spawn = "new"
             /\ c.total_liquidity = Some(50) => h.spawn = "none"

\* C8 witness: a binary market with liquidity exactly at the minimum spawned,
\* and one with liquidity 50 was skipped.
C8_Witness ==
    \E j, k \in 1..Len(handled) :
        /\ IsContract(handled[j]) /\ IsContract(handled[k])
        /\ handled[j].ev.contract.total_liquidity = Some(100)
        /\ handled[j].spawn = "new"
        /\ handled[k].ev.contract.total_liquidity = Some(50)
        /\ handled[k].spawn = "none"

(***************************************************************************)
(* Properties of the streaming client (checked under SpecWs, SpecWsFair).  *)
(***************************************************************************)
LastSent == IF Len(tx) = 0 THEN None ELSE Some(tx[Len(tx)])

\* C4: a connection that has received no frame for more than the 90 second
\* inactivity window is no longer Active: the client has sent a stale
\* connection Error and Disconnected and gone on to reconnect, also when every
\* 20 second ping of the silent period was sent successfully.
C4_StaleConnectionDropped ==
    ws_pc = "active" => silence <= STALE_SECS

\* C5: the client has no terminal state.  Every step that ends a connection
\* attempt or leaves the read loop sends Disconnected last and starts the 3
\* second sleep, a new attempt starts only when that sleep is over, and every
\* sleep is eventually followed by a new connection attempt.
C5_AlwaysReconnects ==
    /\ [][ (ws_pc \in {"connecting", "subscribing", "active"} /\ ws_pc' # ws_pc)
            => \/ /\ ws_pc' \in {"subscribing", "active"}
                  /\ (tx' # tx => LastSent' = Some(Connected))
               \/ /\ ws_pc' = "sleeping"
                  /\ LastSent' = Some(Disconnected)
                  /\ Len(tx') > Len(tx)
                  /\ sleep_left' = RECONNECT_SECS ]_vars
    /\ [][ ws_pc' # ws_pc =>
            /\ ws_pc' \in {"connecting", "subscribing", "active", "sleeping"}
            /\ ws_pc' = "connecting" <=> (ws_pc = "sleeping" /\ sleep_left = 0) ]_vars
    /\ (ws_pc = "sleeping") ~> (ws_pc = "connecting")

\* C5 witness: a connection that had been Active was left, Disconnected was the
\* last event sent, the sleep is over and the next attempt has started.
C5_Witness ==
    /\ ws_pc = "connecting"
    /\ LastSent = Some(Disconnected)
    /\ \E k \in 1..Len(tx) : tx[k] = Connected
    /\ sleep_left = 0

(***************************************************************************)
(* Properties of the evaluation pipeline (checked under SpecEval).         *)
(***************************************************************************)
Tasks == {tasks[i] : i \in 1..Len(tasks)}

\* The market probability a task trades against, 0.5 when absent.
TaskMarketProb(t) ==
    IF t.market[1].probability = None THEN 500 ELSE t.market[1].probability[1]

C7_LimitClamped ==
    \A t \in Tasks :
        t.bet # None =>
            LET p == t.prediction[1].probability
                limit == t.bet[1].limit_prob
            IN /\ t.prediction # None
               /\ 10 <= limit /\ limit <= 990
               /\ limit = (IF p < 10 THEN 10 ELSE IF p > 990 THEN 990 ELSE p)
               /\ p = 995 => limit = 990
               /\ p = 2 => limit = 10

\* C7 witness: a creation-triggered task predicted 0.995 and a limit of 0.99
\* was submitted.
C7_Witness ==
    \E t \in Tasks :
        /\ t.mode = "new"
        /\ t.bet # None
        /\ t.prediction[1].probability = 995
        /\ t.bet[1].limit_prob = 990
        /\ t.calls = 1

(***************************************************************************)
(* Properties of the parser (checked under SpecParse).                     *)
(***************************************************************************)
\* The text decodes as the structured answer: an object whose action and
\* reasoning are strings and whose probability is a number, null or absent.
Structured(txt) ==
    /\ txt.kind = "object"
    /\ txt.action.t = "string"
    /\ txt.reasoning.t = "string"
    /\ txt.probability.t \in {"number", "null", "absent"}

HasNumber(txt) == txt.kind = "object" /\ txt.probability.t = "number"

OutOfRange(txt) == HasNumber(txt) /\ (txt.probability.n < 0 \/ txt.probability.n > 100000)

\* C10 as claimed: an answer whose probability lies outside [0,100] is
\* unparseable whatever its other fields are, the action included.
C10_OutOfRangeAlwaysUnparseable ==
    (parsed # None /\ OutOfRange(text)) => parsed[1] = None

\* C10 as amended: an answer whose probability lies outside [0,100] never
\* parses to a prediction; it is unparseable whatever its reasoning is, unless
\* its action is "skip", and then a structured answer parses to
\* skip(reasoning) and the probability is not looked at.
C10_OutOfRangeUnparseableUnlessSkip ==
    (parsed # None /\ OutOfRange(text)) =>
        IF Structured(text) /\ text.action.s = "skip"
        THEN parsed[1] = Some([tag |-> "Skip", probability |-> 0,
                               reasoning |-> text.reasoning.s])
        ELSE parsed[1] = None

\* C10 witness: a predict answer with probability 150 was parsed and found
\* unparseable.
C10_Witness ==
    /\ text = JObject(JStr("predict"), JNum(150000), JStr("x"))
    /\ parsed = Some(None)

\* What line scanning would make of free text: skip when it has a SKIP marker,
\* else predict when it has a probability within [0, 100], else unparseable.
Scanned(txt) ==
    IF txt.action = JStr("SKIP") THEN Some(Skip(txt.reasoning.s))
    ELSE IF txt.probability.t = "number" /\ txt.probability.n >= 0
            /\ txt.probability.n <= 100000
    THEN Some(Predict(txt.probability.n \div 100, txt.reasoning.s))
    ELSE None

C13_DeliveredOnceInOrder ==
    /\ ws_internal_rx <= Len(tx)
    /\ ws_to_bot = SubSeq(tx, 1, ws_internal_rx)
    /\ Len(handled) <= Len(ws_to_bot)
    /\ \A k \in 1..Len(handled) : handled[k].ev = tx[k]
    /\ bot_log_rx <= Len(log)

\* C13 witness: the client emitted Connected, a trade and Disconnected; the
\* relay, which has also taken log entries in between, passed all three on
\* and run_bot has processed them.
C13_Witness ==
    /\ Len(handled) = 3
    /\ handled[1].ev = Connected
    /\ handled[2].ev.type = "NewBet"
    /\ handled[3].ev = Disconnected
    /\ bot_log_rx = 1
    /\ ws_internal_rx = 3

(***************************************************************************)
(* Properties of the orchestrator with its tasks in flight (SpecConc).     *)
(***************************************************************************)
Failures == {"fetch failed", "research failed", "unparseable", "bet failed"}

\* run_bot's turn on event ev.
Consume(ev) ==
    /\ Recv(MaxConcEvents, 0)
    /\ RunBotStatus(ev) \/ RunBotNewContract(ev) \/ RunBotNewBet(ev)
    /\ Record(ev)

\* The next step of task i, whatever answer it gets.
StepOf(i) ==
    \/ TaskStart(i)
    \/ \E res \in ConcMarketResults(i) : TaskMarket(i, res)
    \/ \E res \in ConcResearchResults : TaskResearch(i, res)
    \/ \E ok \in BOOLEAN : TaskPlaceBet(i, ok)

\* C12: failures are contained.  Whatever has happened (Error events, skipped
\* or discarded events, tasks that failed at any step), run_bot can take its
\* turn on any next event and every unfinished task can take its next step;
\* a step of one task changes that task only (no other task, not the cache,
\* not what run_bot has processed), and a turn of run_bot changes no task that
\* exists already.
C12_FailuresContained ==
    /\ [](Len(handled) < MaxConcEvents => \A ev \in ConcEvents : ENABLED Consume(ev))
    /\ [](\A i \in 1..Len(tasks) : tasks[i].pc # "done" => ENABLED StepOf(i))
    /\ [][\A i \in 1..Len(tasks) :
            tasks'[i] # tasks[i] =>
                /\ Len(tasks') = Len(tasks)
                /\ \A j \in 1..Len(tasks) : j # i => tasks'[j] = tasks[j]
                /\ handled' = handled
                /\ analyzed_cache' = analyzed_cache
                /\ cache_file' = cache_file
                /\ tasks[i].pc # "done"]_vars

\* C12 witness: the first task failed at the oracle, run_bot then processed a
\* second event and spawned a second task, and that task placed its bet.
C12_Witness ==
    /\ Len(tasks) = 2
    /\ tasks[1].exit = "research failed"
    /\ tasks[2].exit = "placed"
    /\ \E a, b \in 1..Len(log) :
           /\ a < b
           /\ log[a] = ErrorEntry(1, "xAI research failed")
           /\ log[b].who = 0

(***************************************************************************)
(* More properties of the evaluation pipeline (checked under SpecEval).    *)
(***************************************************************************)
\* How many entries of the log equal e.
Count(e) == Cardinality({k \in 1..Len(log) : log[k] = e})

\* C14: a task calls place_bet at most once, and exactly once when it got as
\* far as building its order; a submission that failed is logged as one error
\* and the task is over, so it is never submitted again; as an event spawns at
\* most one task, one consumed event gives zero or one submission attempt.
C14_AtMostOneSubmission ==
    /\ [](\A i \in 1..Len(tasks) :
            LET t == tasks[i]
            IN /\ t.calls <= 1
               /\ t.calls = 1 <=> t.bet # None
               /\ t.calls = 1 <=> (t.pc = "place_bet" \/ t.exit \in {"placed", "bet failed"})
               /\ t.exit = "bet failed" =>
                      /\ t.pc = "done"
                      /\ Count(ErrorEntry(i, "Failed to place bet")) = 1
                      /\ Count(Trade(i, "BET PLACED")) = 0
                      /\ Count(Trade(i, "BET PLACED (reversion)")) = 0)
    /\ [](Len(tasks) <= Len(handled))
    /\ [][\A i \in 1..Len(tasks) : tasks[i].pc = "done" => tasks'[i] = tasks[i]]_vars

\* C14 witness: a task submitted its order, the submission failed, and the
\* task is over with that one attempt.
C14_Witness ==
    \E i \in 1..Len(tasks) :
        /\ tasks[i].exit = "bet failed"
        /\ tasks[i].calls = 1
        /\ tasks[i].bet # None

\* C15: the turn of run_bot that spawns the evaluation of an eligible new
\* market has written the market's entry, with the time of that turn, by the
\* time the task exists; every Bet-Occurred event for that market consumed
\* later and less than 24 hours after it is discarded, wherever the market's
\* evaluation is at that moment.
C15_MarkedBeforeSpawn ==
    \A k \in 1..Len(handled) :
        (IsContract(handled[k]) /\ handled[k].spawn = "new") =>
            /\ handled[k].after = Some(handled[k].now)
            /\ \A j \in (k + 1)..Len(handled) :
                   ( /\ IsBet(handled[j])
                     /\ SameMarket(handled[k], handled[j])
                     /\ handled[j].now - handled[k].now < CACHE_TTL_SECS )
                   => /\ handled[j].spawn = "none"
                      /\ handled[j].after = handled[j].prev

\* C15 witness: a new market's evaluation is still waiting for the oracle when
\* a trade on that market, one second before the window closes, is discarded.
C15_Witness ==
    /\ Len(handled) = 2
    /\ IsContract(handled[1]) /\ handled[1].spawn = "new"
    /\ IsBet(handled[2]) /\ SameMarket(handled[1], handled[2])
    /\ handled[2].now - handled[1].now = CACHE_TTL_SECS - 1
    /\ handled[2].spawn = "none"
    /\ Len(tasks) = 1
    /\ tasks[1].pc = "research"

\* The last turn before the j-th that spawned a task for the j-th event's
\* market, 0 if there is none.
LastSpawnBefore(j) ==
    LET S == {k \in 1..(j - 1) : handled[k].spawn # "none"
                                  /\ SameMarket(handled[k], handled[j])}
    IN IF S = {} THEN 0 ELSE CHOOSE k \in S : \A m \in S : m <= k

\* C16: evaluation tasks never add, refresh or remove an entry of the cache or
\* of its file, whatever their outcome: a step of a task leaves both as they
\* are.  So when a trade arrives for a market less than 24 hours after the
\* turn that last spawned an evaluation for it, the entry still holds the
\* time of that turn and the trade is discarded, also when that evaluation
\* failed.
C16_TasksLeaveCacheAlone ==
    /\ [][(\E i \in 1..Len(tasks) : tasks'[i] # tasks[i])
            => (analyzed_cache' = analyzed_cache /\ cache_file' = cache_file)]_vars
    /\ [](\A j \in 1..Len(handled) :
            LET k == LastSpawnBefore(j)
            IN (IsBet(handled[j]) /\ k # 0
                /\ handled[j].now - handled[k].now < CACHE_TTL_SECS)
               => /\ handled[j].prev = Some(handled[k].now)
                  /\ handled[j].after = handled[j].prev
                  /\ handled[j].spawn = "none")

\* C16 witness: a reversion evaluation failed at the submission, and a later
\* trade on the same market, inside the window, was discarded against the
\* entry written before the spawn.
C16_Witness ==
    /\ Len(handled) = 2
    /\ IsBet(handled[1]) /\ handled[1].spawn = "bet"
    /\ tasks[1].exit = "bet failed"
    /\ IsBet(handled[2]) /\ handled[2].spawn = "none"
    /\ handled[2].prev = Some(handled[1].now)
    /\ \E a \in 1..Len(log) : log[a] = ErrorEntry(1, "Failed to place bet")

(***************************************************************************)
(* More properties of the orchestrator (checked under Spec).               *)
(***************************************************************************)
\* The event of run_bot's latest turn, in a step that is such a turn.
Turn == Len(handled') = Len(handled) + 1
TurnEvent == handled'[Len(handled')].ev

\* C17: run_bot's turn on a Connected, Disconnected or Error event sends
\* exactly one log entry (info for Connected and Disconnected, error with the
\* event's message for Error) and does nothing else: the cache and its file
\* stay as they are and no task is spawned.
C17_StatusEventsOnlyLog ==
    [][(Turn /\ TurnEvent.type \in {"Connected", "Disconnected", "Error"}) =>
           /\ Len(log') = Len(log) + 1
           /\ SubSeq(log', 1, Len(log)) = log
           /\ log'[Len(log')].who = 0
           /\ log'[Len(log')].kind = (IF TurnEvent.type = "Error" THEN "Error" ELSE "Info")
           /\ TurnEvent.type = "Error" => log'[Len(log')].msg = TurnEvent.msg
           /\ analyzed_cache' = analyzed_cache
           /\ cache_file' = cache_file
           /\ tasks' = tasks]_vars

\* C17 witness: with an entry in the cache, run_bot processed a Disconnected
\* event; the entry is still there and nothing more was spawned.
C17_Witness ==
    /\ Len(handled) = 2
    /\ IsBet(handled[1]) /\ handled[1].spawn = "bet"
    /\ handled[2].ev = Disconnected
    /\ handled[2].spawn = "none"
    /\ handled[2].logged = <<Info(0, "Disconnected")>>
    /\ DOMAIN analyzed_cache # {}

\* A Contract-Created event that passes the filters: binary, liquidity at
\* least the minimum.
Eligible(c) ==
    /\ c.outcome_type = "BINARY"
    /\ c.total_liquidity # None
    /\ c.total_liquidity[1] >= 100

\* C18: entries leave the cache only in a turn on a Bet-Occurred event.  A
\* turn on a Contract-Created event removes none: for an eligible market it
\* sets that market's entry to the time of the turn and leaves every other
\* entry as it is; for an ineligible market it leaves the cache and its file
\* as they are, so a trade on that market right after it is not discarded
\* because of it.
C18_OnlyBetsEvict ==
    /\ [][Turn =>
            /\ (\E id \in DOMAIN analyzed_cache : id \notin DOMAIN analyzed_cache')
                   => TurnEvent.type = "NewBet"
            /\ TurnEvent.type = "NewContract" =>
                   IF Eligible(TurnEvent.contract)
                   THEN /\ DOMAIN analyzed_cache' =
                              DOMAIN analyzed_cache \cup {TurnEvent.contract.id}
                        /\ analyzed_cache'[TurnEvent.contract.id] = clock'
                        /\ \A id \in DOMAIN analyzed_cache :
                               id # TurnEvent.contract.id
                                   => analyzed_cache'[id] = analyzed_cache[id]
                   ELSE /\ analyzed_cache' = analyzed_cache
                        /\ cache_file' = cache_file]_vars
    /\ [](\A j \in 2..Len(handled) :
            ( /\ IsContract(handled[j - 1])
              /\ ~Eligible(handled[j - 1].ev.contract)
              /\ handled[j - 1].prev = None
              /\ IsBet(handled[j])
              /\ SameMarket(handled[j - 1], handled[j]) )
            => handled[j].spawn = "bet")

\* C18 witness: a turn on an eligible new market m1, taken when m2's entry was
\* more than 24 hours old, left m2's entry in the cache.
C18_Witness ==
    /\ Len(handled) = 2
    /\ handled[1].ev = NewBet("m2")
    /\ IsContract(handled[2]) /\ handled[2].ev.contract.id = "m1"
    /\ handled[2].spawn = "new"
    /\ handled[2].now = CACHE_TTL_SECS + 1
    /\ DOMAIN analyzed_cache = {"m1", "m2"}
    /\ analyzed_cache["m2"] = 0
    /\ analyzed_cache["m1"] = CACHE_TTL_SECS + 1

LoggedBy(i) == {k \in 1..Len(log) : log[k].who = i}

\* C20: a reversion task whose freshly fetched market is resolved, not binary
\* or below the minimum liquidity is over at once and silently: it has asked
\* the oracle nothing (no prediction, and not even the "Analyzing market"
\* entry that precedes the request), built and submitted no order, and sent
\* no log entry of any kind.
C20_SilentAbort ==
    \A i \in 1..Len(tasks) :
        LET t == tasks[i]
        IN (t.mode = "bet" /\ t.market # None
            /\ ( \/ t.market[1].is_resolved
                 \/ t.market[1].outcome_type # "BINARY"
                 \/ t.market[1].total_liquidity = None
                 \/ t.market[1].total_liquidity[1] < 100 ))
           => /\ t.pc = "done"
              /\ t.prediction = None
              /\ t.bet = None
              /\ t.calls = 0
              /\ LoggedBy(i) = {}

\* C20 witness: a reversion task fetched a market that had resolved, and is
\* over.
C20_Witness ==
    \E i \in 1..Len(tasks) :
        /\ tasks[i].mode = "bet"
        /\ tasks[i].market # None
        /\ tasks[i].market[1].is_resolved
        /\ tasks[i].pc = "done"
        /\ log = <<>>

\* Log entries of kind Error that task i sent.
ErrorsBy(i) == {k \in 1..Len(log) : log[k].who = i /\ log[k].kind = "Error"}

\* C21: in both trigger modes a task whose oracle call failed, whose answer
\* is skip, or whose answer is unparseable (no JSON, or a probability out of
\* range) is over without an order; the failed call and the unparseable answer
\* are each logged as one error entry, the skip as one info entry and no
\* error entry.
C21_NoOrderWithoutPrediction ==
    \A i \in 1..Len(tasks) :
        LET t == tasks[i]
            quiet == t.pc = "done" /\ t.bet = None /\ t.calls = 0
        IN /\ t.answer = Some(None) =>
                  /\ quiet
                  /\ Count(ErrorEntry(i, "xAI research failed")) = 1
                  /\ Cardinality(ErrorsBy(i)) = 1
           /\ t.answer \in {Some(Some(Garbage)), Some(Some(PredictText(150000, "x")))} =>
                  /\ quiet
                  /\ Count(ErrorEntry(i, "Could not parse prediction")) = 1
                  /\ Cardinality(ErrorsBy(i)) = 1
           /\ t.answer = Some(Some(SkipText("y"))) =>
                  /\ quiet
                  /\ Count(Info(i, "Skipping unevaluable market")) = 1
                  /\ ErrorsBy(i) = {}

\* C21 witness: a reversion task got a skip answer and is over, the skip
\* logged as information.
C21_Witness ==
    \E i \in 1..Len(tasks) :
        /\ tasks[i].mode = "bet"
        /\ tasks[i].answer = Some(Some(SkipText("y")))
        /\ tasks[i].pc = "done"
        /\ log[Len(log)] = Info(i, "Skipping unevaluable market")

\* C22: in both trigger modes a task whose oracle answer is unparseable has
\* logged the raw response (cut to at most 300 characters) once, as its last
\* entry before it ended.
C22_RawResponseLogged ==
    \A i \in 1..Len(tasks) :
        (tasks[i].answer # None /\ tasks[i].answer[1] # None
         /\ parse_prediction(tasks[i].answer[1][1]) = None)
        => /\ tasks[i].pc = "done"
           /\ Count(Info(i, "xAI response")) = 1

\* The turn of run_bot that spawned the i-th task.
Trigger(i) ==
    CHOOSE k \in 1..Len(handled) :
        /\ handled[k].spawn # "none"
        /\ Cardinality({j \in 1..k : handled[j].spawn # "none"}) = i

\* C23: the stake of an order depends on the trigger mode only: 10 (the
\* new-market size) for a task spawned by a Contract-Created event, 25 (the
\* reversion size) for one spawned by a Bet-Occurred event, whatever the
\* market and the prediction; and the order is for the market of the event
\* that spawned the task.
C23_StakeByMode ==
    \A i \in 1..Len(tasks) :
        tasks[i].bet # None =>
            LET ev == handled[Trigger(i)].ev
                b == tasks[i].bet[1]
            IN /\ ev.type = "NewContract" => b.amount = 10
               /\ ev.type = "NewBet" => b.amount = 25
               /\ ev.type \in {"NewContract", "NewBet"}
               /\ b.contract_id = ev.contract.id

\* C23 witness: a reversion task on m2 placed an order of 25 on m2.
C23_Witness ==
    \E i \in 1..Len(tasks) :
        /\ tasks[i].mode = "bet"
        /\ tasks[i].exit = "placed"
        /\ tasks[i].bet[1].amount = 25
        /\ tasks[i].bet[1].contract_id = "m2"
        /\ handled[Trigger(i)].ev = NewBet("m2")

\* C24: the file is rewritten after every insert.  A turn of run_bot that
\* inserts or refreshes an entry (it is the turn that spawns: an eligible
\* Contract-Created or a Bet-Occurred that was not discarded) ends with the
\* file equal to the map in memory, the new entry included, by the time the
\* task exists; and the file changes in no other step.
C24_SavedAfterInsert ==
    /\ [][(Turn /\ handled'[Len(handled')].spawn # "none") =>
            /\ cache_file' = analyzed_cache'
            /\ TurnEvent.contract.id \in DOMAIN cache_file'
            /\ cache_file'[TurnEvent.contract.id] = clock']_vars
    /\ [][cache_file' # cache_file => (Turn /\ handled'[Len(handled')].spawn # "none")]_vars

\* C24 witness: two turns inserted entries for m1 and m2, and the file holds
\* both, as the map in memory does.
C24_Witness ==
    /\ Len(handled) = 2
    /\ handled[1].spawn # "none" /\ handled[2].spawn # "none"
    /\ DOMAIN cache_file = {"m1", "m2"}
    /\ cache_file = analyzed_cache
    /\ cache_file["m1"] # cache_file["m2"]

(***************************************************************************)
(* Properties across restarts (checked under SpecRestart).                 *)
(***************************************************************************)
Starting == Turn /\ TurnEvent.type = "Started"

IsStart(h) == h.ev.type = "Started"

C26_PingFailureIsFatal ==
    /\ [][WsPing(FALSE) =>
            /\ ws_pc' = "sleeping"
            /\ tx' = Append(tx, Disconnected)
            /\ sleep_left' = RECONNECT_SECS]_vars
    /\ [][WsPing(TRUE) => (ws_pc' = "active" /\ tx' = tx)]_vars
    /\ [][ws_pc = "sleeping" =>
            /\ tx' = tx
            /\ ws_pc' \in {"sleeping", "connecting"}
            /\ ws_pc' = "connecting" => sleep_left = 0]_vars
    /\ (ws_pc = "sleeping") ~> (ws_pc = "connecting")

\* C26 witness: the first ping of a connection failed: Connected and then
\* Disconnected were sent and the client sleeps its 3 seconds.
C26_Witness ==
    /\ ws_pc = "sleeping"
    /\ sleep_left = RECONNECT_SECS
    /\ tx = <<Connected, Disconnected>>
    /\ ping_txid = FIRST_PING_TXID + 1
    /\ ping_left = 0 /\ silence = 0

\* The events sent by the step.
Sent == SubSeq(tx', Len(tx) + 1, Len(tx'))

\* C27: Connected is sent only by the step in which the subscribe request
\* of an opened connection was sent successfully, and that step sends
\* nothing else; every NewContract or NewBet event in the channel follows the
\* Connected of its connection; an attempt that fails to open or to subscribe
\* sends an Error and then a Disconnected, and no Connected.
C27_ConnectedAfterSubscribe ==
    /\ [][(\E k \in 1..Len(Sent) : Sent[k] = Connected) =>
            /\ ws_pc = "subscribing" /\ ws_pc' = "active"
            /\ Sent = <<Connected>>]_vars
    /\ [][(ws_pc # "subscribing" /\ ws_pc' = "subscribing") =>
            (ws_pc = "connecting" /\ tx' = tx)]_vars
    /\ [][(ws_pc \in {"connecting", "subscribing"} /\ ws_pc' = "sleeping") =>
            Sent = <<Error("WS error"), Disconnected>>]_vars
    /\ [][ws_pc = "connecting" => ws_pc' # "active"]_vars
    /\ [](\A k \in 1..Len(tx) :
            tx[k].type \in {"NewContract", "NewBet"} =>
                \E c \in 1..(k - 1) :
                    /\ tx[c] = Connected
                    /\ \A j \in (c + 1)..(k - 1) : tx[j] # Disconnected)

\* C27 witness: a first attempt failed (Error, Disconnected), the second
\* connected and subscribed (Connected) and then delivered a trade.
C27_Witness ==
    /\ tx = <<Error("WS error"), Disconnected, Connected, NewBet("m2")>>
    /\ ws_pc = "active"

ReadFrame(f) == WsRead([res |-> "frame", frame |-> f])

\* C28: a new-bet broadcast whose list of trades is not empty sends exactly
\* one NewBet, that of the first record; one whose list is empty sends
\* exactly one Error and no NewBet; either way the connection stays Active.
C28_FirstBetOnly ==
    [][\A f \in Frames :
        (f.topic = "global/new-bet" /\ f.bets # None /\ ReadFrame(f)) =>
            /\ ws_pc' = "active"
            /\ Sent = IF Len(f.bets[1]) > 0
                      THEN <<NewBet(f.bets[1][1])>>
                      ELSE <<Error("Empty bets array in new-bet broadcast")>>]_vars

\* C28 witness: a broadcast of the trades on m2 and m1, in that order, gave
\* NewBet of m2 alone, and an empty one gave an Error; the client is Active.
C28_Witness ==
    /\ tx = <<Connected, NewBet("m2"), Error("Empty bets array in new-bet broadcast")>>
    /\ ws_pc = "active"

\* C29: an acknowledgment with success = false, a broadcast on an unknown
\* topic and a new-contract broadcast whose payload does not decode each send
\* exactly one Error and no Disconnected, and the read loop goes on: the
\* connection stays Active with its silence timer started afresh.
C29_DecodeErrorsNotFatal ==
    [][\A f \in {Ack(FALSE), Broadcast("global/unknown", None, None),
                  Broadcast("global/new-contract", None, None)} :
        ReadFrame(f) =>
            /\ Len(Sent) = 1
            /\ Sent[1].type = "Error"
            /\ ws_pc' = "active"
            /\ stale_left' = STALE_SECS]_vars

\* C29 witness: the three frames arrived on one connection, which sent one
\* Error for each and is still Active.
C29_Witness ==
    /\ tx = <<Connected, Error("Subscription failed"), Error("Unknown topic"),
              Error("Failed to parse new contract")>>
    /\ ws_pc = "active"

\* C30: a text frame that decodes neither as an acknowledgment nor as a
\* broadcast is reported: reading it sends exactly one Error event, and the
\* connection stays Active.
C30_MalformedFrameReported ==
    [][ReadFrame(MalformedText) =>
        /\ Len(Sent) = 1
        /\ Sent[1].type = "Error"
        /\ ws_pc' = "active"]_vars

\* The events of the step that are Disconnected.
Disconnects == {k \in 1..Len(Sent) : Sent[k] = Disconnected}

\* C31: in the stream the client sends, every connection attempt ends with
\* exactly one Disconnected: the step that ends an attempt sends it last and
\* once, no other step sends one, and the client sends nothing while it
\* sleeps; between any two Connected there is a Disconnected; and the last
\* status event before a NewContract or NewBet is a Connected, never a
\* Disconnected.
C31_AttemptsEndWithOneDisconnected ==
    /\ [][(ws_pc # "sleeping" /\ ws_pc' = "sleeping") =>
            /\ Len(Sent) > 0
            /\ Disconnects = {Len(Sent)}]_vars
    /\ [][Disconnects # {} => (ws_pc # "sleeping" /\ ws_pc' = "sleeping")]_vars
    /\ [](ws_pc = "sleeping" => (Len(tx) > 0 /\ tx[Len(tx)] = Disconnected))
    /\ [](\A i \in 1..Len(tx) : \A j \in (i + 1)..Len(tx) :
            (tx[i] = Connected /\ tx[j] = Connected) =>
                \E k \in (i + 1)..(j - 1) : tx[k] = Disconnected)
    /\ [](\A i \in 1..Len(tx) : \A j \in (i + 1)..Len(tx) :
            (tx[i] = Disconnected /\ tx[j].type \in {"NewContract", "NewBet"}) =>
                \E k \in (i + 1)..(j - 1) : tx[k] = Connected)

\* C31 witness: a connection delivered a trade and ended, and the next
\* attempt connected: two Connected with one Disconnected between them.
C31_Witness ==
    /\ tx = <<Connected, NewBet("m1"), Disconnected, Connected>>
    /\ ws_pc = "active"

====
